---- MODULE Spec2Model ----
(***************************************************************************)
(* Model of generate_heatmap.py: the generator of the SVG heatmap pattern  *)
(* (generate_heatmap_pattern) and its injection into the target files      *)
(* (update_svg_files).                                                     *)
(*                                                                         *)
(* Text is a sequence of lexemes.  The regular expression of the injector  *)
(* only tells apart the literal '<pattern id="heatmap"', the character     *)
(* '>', and the literal '</pattern>'; every lexeme below either contains   *)
(* no '>' at all or exactly one, as its last character, and none of the    *)
(* two literals can straddle two lexemes (both start with '<', and '<'     *)
(* only starts a lexeme), so matching on lexemes is matching on the        *)
(* characters.                                                             *)
(***************************************************************************)
EXTENDS Integers, Sequences, FiniteSets, TLC

VARIABLES
    files,      \* the bytes of each target file, by its index in SVG_FILES
    orig,       \* the bytes each file held when the behaviour began
    linesep,    \* os.linesep of the platform
    pc,         \* update_svg_files: "idle", "running", "done" or "halted"
    idx,        \* the index in SVG_FILES of the target of the next pass
    rng,        \* the state of the module random: its seed and draws made
    runsLeft,   \* runs of the script still to be started
    out,        \* the lines printed by the current run
    io,         \* the file operations of the current run, in order
    gpc,        \* a call of generate_heatmap_pattern: "idle", "rows", "returned"
    stroke_color, \* its argument
    lines,      \* its list of lines
    row,        \* its loop variable
    result      \* the text it returned

vars == <<files, orig, linesep, pc, idx, rng, runsLeft, out, io,
          gpc, stroke_color, lines, row, result>>

fileVars == <<files, orig, linesep, pc, idx, runsLeft, out, io>>
genVars == <<gpc, stroke_color, lines, row, result>>

----------------------------------------------------------------------------
(* Bounds of the model *)

\* number of runs of the script in one behaviour
MaxRuns == 2
\* total number of segments in the initial contents of the target files
MaxSegs == 2
\* seeds of the random generator are 0 .. MaxSeed
MaxSeed == 2

----------------------------------------------------------------------------
(* Python numbers: the float literals of the configuration, int * float    *)
(* (lines 43, 46) and the text an f-string gives a float (repr, lines      *)
(* 49-51).                                                                 *)

(* Natural numbers of any size: little-endian sequences of limbs in base 10^4 *)
Base == 10 ^ 4
\* quotients are found 13 bits (one chunk) at a time
Chunk == 2 ^ 13
ChunkBits == 12 + 1

RECURSIVE BNorm(_)
BNorm(a) == IF a = <<>> THEN a
            ELSE IF a[Len(a)] = 0 THEN BNorm(SubSeq(a, 1, Len(a) - 1)) ELSE a

RECURSIVE BFromInt(_)
BFromInt(n) == IF n = 0 THEN <<>> ELSE <<n % Base>> \o BFromInt(n \div Base)

Limb(a, i) == IF i <= Len(a) THEN a[i] ELSE 0

\* the limbs of a + b from limb i on, c the carry into limb i
RECURSIVE BAddC(_, _, _, _)
BAddC(a, b, i, c) ==
    IF i > Len(a) /\ i > Len(b) THEN (IF c = 0 THEN <<>> ELSE <<c>>)
    ELSE LET s == Limb(a, i) + Limb(b, i) + c
         IN <<s % Base>> \o BAddC(a, b, i + 1, s \div Base)
BAdd(a, b) == BAddC(a, b, 1, 0)

\* a - b for a >= b
RECURSIVE BSubC(_, _, _, _)
BSubC(a, b, i, c) ==
    IF i > Len(a) THEN <<>>
    ELSE LET d == a[i] - Limb(b, i) - c
         IN <<IF d < 0 THEN d + Base ELSE d>> \o BSubC(a, b, i + 1, IF d < 0 THEN 1 ELSE 0)
BSub(a, b) == BNorm(BSubC(a, b, 1, 0))

\* -1, 0, 1 as a < b, a = b, a > b
RECURSIVE BCmpFrom(_, _, _)
BCmpFrom(a, b, i) == IF i = 0 THEN 0
                     ELSE IF a[i] < b[i] THEN -1
                     ELSE IF a[i] > b[i] THEN 1
                     ELSE BCmpFrom(a, b, i - 1)
BCmp(a, b) == IF Len(a) < Len(b) THEN -1
              ELSE IF Len(a) > Len(b) THEN 1
              ELSE BCmpFrom(a, b, Len(a))
BLe(a, b) == BCmp(a, b) <= 0

\* a * m for 0 <= m < Base
RECURSIVE BMulC(_, _, _, _)
BMulC(a, m, i, c) == IF i > Len(a) THEN (IF c = 0 THEN <<>> ELSE <<c>>)
                     ELSE LET p == a[i] * m + c
                          IN <<p % Base>> \o BMulC(a, m, i + 1, p \div Base)
BMulSmall(a, m) == IF m = 0 THEN <<>> ELSE BMulC(a, m, 1, 0)

\* a * 2^n and a * 10^n; a as it is for n <= 0
RECURSIVE BTimesPow2(_, _)
BTimesPow2(a, n) == IF n <= 0 THEN a
                    ELSE BMulSmall(BTimesPow2(a, n - ChunkBits),
                                   IF n >= ChunkBits THEN Chunk ELSE 2 ^ n)
RECURSIVE BTimesPow10(_, _)
BTimesPow10(a, n) == IF n <= 0 \/ a = <<>> THEN a
                     ELSE IF n >= 4 THEN <<0>> \o BTimesPow10(a, n - 4)
                     ELSE BMulSmall(a, 10 ^ n)

BOne == <<1>>
BIsOdd(a) == a # <<>> /\ a[1] % 2 = 1

\* the largest t in lo .. hi with b * t <= a, given b * lo <= a
RECURSIVE QDigit(_, _, _, _)
QDigit(a, b, lo, hi) ==
    IF lo = hi THEN lo
    ELSE IF BLe(BMulSmall(b, (lo + hi + 1) \div 2), a)
    THEN QDigit(a, b, (lo + hi + 1) \div 2, hi)
    ELSE QDigit(a, b, lo, ((lo + hi + 1) \div 2) - 1)

\* floor(a / b) and a mod b for a < b * Chunk^n, a quotient digit at a time
RECURSIVE BDivModFrom(_, _, _)
BDivModFrom(a, b, n) ==
    IF n = 0 \/ a = <<>> THEN [q |-> <<>>, r |-> a]
    ELSE LET bi == BTimesPow2(b, ChunkBits * (n - 1))
             t == QDigit(a, bi, 0, Chunk - 1)
         IN IF t = 0 THEN BDivModFrom(a, b, n - 1)
            ELSE LET d == BDivModFrom(BSub(a, BMulSmall(bi, t)), b, n - 1)
                 IN [q |-> BAdd(d.q, BTimesPow2(BFromInt(t), ChunkBits * (n - 1))),
                     r |-> d.r]
\* quotients below 2^65
BDivMod(a, b) == BDivModFrom(a, b, 5)

\* a / b rounded to the nearest integer, ties to even: d is the quotient and
\* the remainder, c compares twice the remainder with b
BRoundUp(d, c) == IF c > 0 \/ (c = 0 /\ BIsOdd(d.q)) THEN BAdd(d.q, BOne) ELSE d.q
BRoundOf(d, b) == BRoundUp(d, BCmp(BAdd(d.r, d.r), b))
BRoundDiv(a, b) == IF a = <<>> THEN a ELSE BRoundOf(BDivMod(a, b), b)

(* IEEE 754 binary64: [m, e] is m * 2^e with 2^52 <= m < 2^53, or m = 0 *)
MantBits == 53
FZero == [m |-> <<>>, e |-> 0]

\* d * 2^52 <= n < d * 2^53
FInRange(n, d) == BLe(BTimesPow2(d, MantBits - 1), n) /\ ~BLe(BTimesPow2(d, MantBits), n)
\* the s that brings n / d / 2^s into that range
FShift(n, d) == CHOOSE s \in -80 .. 80 : FInRange(BTimesPow2(n, -s), BTimesPow2(d, s))
\* the rounded mantissa q may have reached 2^53
FPack(q, e) == IF FInRange(q, BOne) THEN [m |-> q, e |-> e]
               ELSE [m |-> BTimesPow2(BOne, MantBits - 1), e |-> e + 1]
FRoundAt(n, d, e, s) == FPack(BRoundDiv(BTimesPow2(n, -s), BTimesPow2(d, s)), e + s)
\* n / d * 2^e rounded to the nearest double, ties to even
FRound(n, d, e) == IF n = <<>> THEN FZero ELSE FRoundAt(n, d, e, FShift(n, d))

\* float("<digits>e-<frac>"): the literal digits * 10^-frac
FloatOfDecimal(digits, frac) == FRound(BFromInt(digits), BTimesPow10(BOne, frac), 0)
\* int * float: the int is converted exactly, the product rounded once
FloatMulInt(k, f) == FRound(BMulSmall(f.m, k), BOne, f.e)

\* the double as a fraction n / d
FNum(f) == BTimesPow2(f.m, f.e)
FDen(f) == BTimesPow2(BOne, -f.e)

\* 10^p <= n / d
Pow10Le(n, d, p) == BLe(BTimesPow10(d, p), BTimesPow10(n, -p))
Dec10ExpOf(n, d) == CHOOSE p \in -5 .. 16 : Pow10Le(n, d, p) /\ ~Pow10Le(n, d, p + 1)
\* p with 10^p <= f < 10^(p+1), for f > 0
Dec10Exp(f) == Dec10ExpOf(FNum(f), FDen(f))

\* f * 10^k rounded to an integer
ScaledRound(f, k) == BRoundDiv(BTimesPow10(FNum(f), k), BTimesPow10(FDen(f), -k))

\* the double nearest to m * 10^k
FloatOfScaled(m, k) == FRound(BTimesPow10(m, k), BTimesPow10(BOne, -k), 0)

\* f, of decimal exponent p, written with n significant digits reads back as f
ReadsBack(f, p, n) == FloatOfScaled(ScaledRound(f, n - 1 - p), p - (n - 1)) = f

\* float_repr_style "short": the fewest significant digits that read back as f
\* (n digits do, or n is 17, and no fewer do; n itself is tried first)
FewestDigits(f, p) ==
    CHOOSE n \in 1 .. 17 :
        \A i \in 0 .. (n - 1) : (i = 0) = (n - i = 17 \/ ReadsBack(f, p, n - i))
DigitsAt(f, p, n) == [m |-> ScaledRound(f, n - 1 - p), k |-> p - (n - 1)]
DigitsOf(f, p) == DigitsAt(f, p, FewestDigits(f, p))
ShortestDigits(f) == DigitsOf(f, Dec10Exp(f))

DigitChar == <<"0", "1", "2", "3", "4", "5", "6", "7", "8", "9">>
LimbText(n) == DigitChar[(n \div 1000) + 1] \o DigitChar[((n \div 100) % 10) + 1]
               \o DigitChar[((n \div 10) % 10) + 1] \o DigitChar[(n % 10) + 1]
RECURSIVE BTextFrom(_, _)
BTextFrom(a, i) == IF i = 0 THEN ""
                   ELSE (IF i = Len(a) THEN ToString(a[i]) ELSE LimbText(a[i]))
                        \o BTextFrom(a, i - 1)
BText(a) == IF a = <<>> THEN "0" ELSE BTextFrom(a, Len(a))

\* floor(a / 10^n) and a mod 10^n
BSplit10(a, n) == BDivMod(a, BTimesPow10(BOne, n))
\* a > 0 ends with z zero digits, z <= 17
EndsWithZeros(a, z) == BSplit10(a, z).r = <<>>
\* the number of trailing zero digits of a > 0
TrailingZeros(a) ==
    CHOOSE z \in 0 .. 17 : \A j \in {z, z + 1} : (j = z) = (j <= 17 /\ EndsWithZeros(a, j))
RECURSIVE Zeros(_)
Zeros(n) == IF n <= 0 THEN "" ELSE "0" \o Zeros(n - 1)

\* the digits m * 10^k written positionally with at least one fractional
\* digit: z trailing zeros of m are dropped, p is m split at the point
Padded(ft, n) == Zeros(n - Len(ft)) \o ft
WrittenFrac(p, n) == BText(p.q) \o "." \o Padded(BText(p.r), n)
Written(m, k) == IF k >= 0 THEN BText(m) \o Zeros(k) \o ".0"
                 ELSE WrittenFrac(BSplit10(m, -k), -k)
PositionalOf(s, z) == Written(BSplit10(s.m, z).q, s.k + z)
Positional(s) == PositionalOf(s, TrailingZeros(s.m))

\* repr(f) for f = 0 or 1e-4 <= f < 1e16
FloatRepr(f) == IF f.m = <<>> THEN "0.0" ELSE Positional(ShortestDigits(f))

----------------------------------------------------------------------------
(* Configuration, generate_heatmap.py lines 10-26 *)

GRID_SIZE == 17
PATTERN_SIZE == 24
RECT_SIZE == FloatOfDecimal(13, 1)
SPACING == FloatOfDecimal(14, 1)
STROKE_WIDTH == FloatOfDecimal(1, 1)
CORNER_RADIUS == FloatOfDecimal(26, 2)
COLORS == <<"#006d32", "#26a641", "#39d353">>
SVG_FILES == << <<"frontend/src/assets/heatmap-dark.svg", "#fff">>,
                <<"frontend/src/assets/heatmap-light.svg", "#000">> >>

----------------------------------------------------------------------------
(* Lexemes *)

T(s) == [k |-> "text", s |-> s]
GT == [k |-> "gt"]
OPEN == [k |-> "open"]
CLOSE == [k |-> "close"]
NL == [k |-> "nl"]
\* "\r\n" is one lexeme: a CR is never followed by NL
CRLF == [k |-> "crlf"]
CR == [k |-> "cr"]
Comment(s) == [k |-> "comment", s |-> s]
Rect(a) == [k |-> "rect", a |-> a]

\* a lexeme holding a '>' holds it as its last character
EndsGT(l) == l.k \in {"gt", "close", "comment", "rect"}

\* the concatenation of the texts parts[lo] .. parts[hi]
RECURSIVE Flatten(_, _, _)
Flatten(parts, lo, hi) ==
    IF lo > hi THEN <<>>
    ELSE IF lo = hi THEN parts[lo]
    ELSE LET mid == (lo + hi) \div 2
         IN Flatten(parts, lo, mid) \o Flatten(parts, mid + 1, hi)

\* "\n".join(lines)
Join(ls) ==
    Flatten([i \in 1 .. Len(ls) |-> IF i = 1 THEN ls[i] ELSE <<NL>> \o ls[i]], 1, Len(ls))

----------------------------------------------------------------------------
(* random.choice: the module generator is seeded when the process starts;  *)
(* a seed stands for one stream of draws.  Seed 0 draws the first colour   *)
(* throughout, seeds 1 and 2 go through the palette, up and down.          *)

RandBelow(seed, j, n) == (seed * (j + 1)) % n
\* random.choice(seq), as the draw number rng.pos of the stream
random_choice(seq, r) == seq[RandBelow(r.seed, r.pos, Len(seq)) + 1]
Advance(r, n) == [r EXCEPT !.pos = r.pos + n]

----------------------------------------------------------------------------
(* generate_heatmap_pattern, lines 29-58 *)

\* the products and the texts of the floats the generator meets, worked out once
\* index * SPACING, lines 43 and 46
Position(index) == FloatMulInt(index, SPACING)
\* the positions of the rows and columns, worked out once
Products == [i \in 0 .. GRID_SIZE - 1 |-> Position(i)]

\* the floats the script formats and repr of each, worked out once
KnownFloats ==
    {RECT_SIZE, SPACING, STROKE_WIDTH, CORNER_RADIUS} \cup {Products[i] : i \in DOMAIN Products}
Reprs == [f \in KnownFloats |-> FloatRepr(f)]

\* the floats written with 15 significant digits, as "%.15g" would
Reprs15 ==
    [f \in KnownFloats |->
       IF f.m = <<>> THEN "0.0" ELSE Positional(DigitsAt(f, Dec10Exp(f), 15))]
FormatFloat15(f) == Reprs15[f]

\* f"{value}" of a float and of an int
FormatFloat(f) == Reprs[f]
FormatInt(n) == ToString(n)

Indent4 == T("    ")
Indent6 == T("      ")

\* line 33
HeaderLine ==
    <<Indent4, OPEN,
      T(" x=\"0\" y=\"0\" width=\"" \o FormatInt(PATTERN_SIZE) \o "\" height=\""
        \o FormatInt(PATTERN_SIZE) \o "\" patternUnits=\"userSpaceOnUse\""),
      GT>>

\* the background written for every stroke colour but the dark theme's
BackgroundNotWhite(stroke) ==
    IF stroke # "#fff"
    THEN << <<Indent6, Comment(" Background for gaps ")>>,
            <<Indent6, Rect([width |-> FormatInt(PATTERN_SIZE),
                             height |-> FormatInt(PATTERN_SIZE),
                             fill |-> "#000"])>>,
            <<>> >>
    ELSE <<>>

\* lines 36-39
Background(stroke) ==
    IF stroke = "#000"
    THEN << <<Indent6, Comment(" Background for gaps ")>>,
            <<Indent6, Rect([width |-> FormatInt(PATTERN_SIZE),
                             height |-> FormatInt(PATTERN_SIZE),
                             fill |-> "#000"])>>,
            <<>> >>
    ELSE <<>>

\* the formatted floats of a rectangle: size, x, y, corner radius, stroke width
RectTexts(x_pos, y_pos) ==
    [i \in 1 .. 5 |-> FormatFloat(<<RECT_SIZE, x_pos, y_pos, CORNER_RADIUS, STROKE_WIDTH>>[i])]
\* the f-string of lines 49-51 around them
RectOf(t, color, stroke) ==
    <<Indent6, Rect([width |-> t[1], height |-> t[1], x |-> t[2], y |-> t[3],
                     fill |-> color, rx |-> t[4], stroke |-> stroke,
                     strokeWidth |-> t[5]])>>

\* the rectangle with the fill and the stroke taken from each other's value
RectLineSwapped(x_pos, y_pos, color, stroke) == RectOf(RectTexts(x_pos, y_pos), stroke, color)

\* the rectangle with the dark theme's stroke written into the literal
RectLineWhiteStroke(x_pos, y_pos, color, stroke) ==
    RectOf(RectTexts(x_pos, y_pos), color, "#fff")

\* lines 49-51
RectLine(x_pos, y_pos, color, stroke) == RectOf(RectTexts(x_pos, y_pos), color, stroke)

\* a pass whose inner loop stops one column early, range(GRID_SIZE - 1)
RowLinesShort(rw, stroke, r) ==
    << <<Indent6, Comment(" Row " \o FormatInt(rw + 1) \o " ")>> >>
    \o [c \in 1 .. GRID_SIZE - 1 |->
          RectLine(Products[c - 1], Products[rw],
                   random_choice(COLORS, Advance(r, c - 1)), stroke)]
    \o << <<>> >>

\* one pass of the outer loop, lines 42-54; r is the generator as the pass
\* begins, Products[rw] is y_pos and Products[c - 1] is x_pos
RowLines(rw, stroke, r) ==
    << <<Indent6, Comment(" Row " \o FormatInt(rw + 1) \o " ")>> >>
    \o [c \in 1 .. GRID_SIZE |->
          RectLine(Products[c - 1], Products[rw],
                   random_choice(COLORS, Advance(r, c - 1)), stroke)]
    \o << <<>> >>

\* a closing tag that lacks its '>'
FooterLineOpen == <<Indent4, T("</pattern")>>

\* line 56
FooterLine == <<Indent4, CLOSE>>

\* the lines appended by the first n passes of the outer loop
RECURSIVE RowsUpTo(_, _, _)
RowsUpTo(n, stroke, r) ==
    IF n = 0 THEN <<>>
    ELSE RowsUpTo(n - 1, stroke, r)
         \o RowLines(n - 1, stroke, Advance(r, (n - 1) * GRID_SIZE))

\* the text a call returns, line 58, r the generator as the call begins
generate_heatmap_pattern(stroke, r) ==
    Join(<<HeaderLine>> \o Background(stroke) \o RowsUpTo(GRID_SIZE, stroke, r)
         \o <<FooterLine>>)

\* the draws one call makes
DrawsPerCall == GRID_SIZE * GRID_SIZE

\* the texts of the calls update_svg_files makes, worked out once: call i of a
\* run finds the generator DrawsPerCall * (i - 1) draws after its seeding
Generated ==
    [c \in {<<SVG_FILES[i][2], [seed |-> sd, pos |-> DrawsPerCall * (i - 1)]>> :
              i \in 1 .. Len(SVG_FILES), sd \in 0 .. MaxSeed}
       |-> generate_heatmap_pattern(c[1], c[2])]

----------------------------------------------------------------------------
(* A call of generate_heatmap_pattern, a pass of its outer loop a step *)

\* the stroke colours a call is made with: the two of SVG_FILES and others
StrokeColors == {"#fff", "#000", "#000000", "red", ""}
Seeds == 0 .. MaxSeed

NoFiles == [i \in 1 .. Len(SVG_FILES) |-> <<>>]

GenInit ==
    /\ gpc = "idle"
    /\ stroke_color \in StrokeColors
    /\ rng \in [seed : Seeds, pos : {0}]
    /\ lines = <<>>
    /\ row = 0
    /\ result = <<>>
    /\ files = NoFiles
    /\ orig = NoFiles
    /\ linesep = NL
    /\ pc = "idle"
    /\ idx = 1
    /\ runsLeft = 0
    /\ out = <<>>
    /\ io = <<>>

\* lines 31-39
GenEnter ==
    /\ gpc = "idle"
    /\ lines' = <<HeaderLine>> \o Background(stroke_color)
    /\ row' = 0
    /\ gpc' = "rows"
    /\ UNCHANGED <<stroke_color, result, rng>>
    /\ UNCHANGED fileVars

\* lines 41-54
GenRow ==
    /\ gpc = "rows"
    /\ row < GRID_SIZE
    /\ lines' = lines \o RowLines(row, stroke_color, rng)
    /\ rng' = Advance(rng, GRID_SIZE)
    /\ row' = row + 1
    /\ UNCHANGED <<gpc, stroke_color, result>>
    /\ UNCHANGED fileVars

\* lines 56-58
GenReturn ==
    /\ gpc = "rows"
    /\ row = GRID_SIZE
    /\ lines' = lines \o <<FooterLine>>
    /\ result' = Join(lines')
    /\ gpc' = "returned"
    /\ UNCHANGED <<stroke_color, row, rng>>
    /\ UNCHANGED fileVars

GenNext == GenEnter \/ GenRow \/ GenReturn

SpecGen == GenInit /\ [][GenNext]_vars

----------------------------------------------------------------------------
(* Text files: open(svg_file, 'r') and open(svg_file, 'w'), lines 65-66    *)
(* and 78-79, are text mode with the default newline handling.             *)

\* f.read(): universal newlines, "\r\n" and "\r" are read as "\n"
Decode(bytes) ==
    SubSeq([i \in 1 .. Len(bytes) |-> IF bytes[i] \in {CRLF, CR} THEN NL ELSE bytes[i]],
           1, Len(bytes))

\* f.write(text): "\n" is written as os.linesep
Encode(text, sep) ==
    SubSeq([i \in 1 .. Len(text) |-> IF text[i] = NL THEN sep ELSE text[i]],
           1, Len(text))

----------------------------------------------------------------------------
(* re.sub(r'<pattern id="heatmap"[^>]*>.*?</pattern>', repl, string,       *)
(* flags=re.DOTALL), lines 73-75                                           *)

\* where the two literals of the expression are found in t
Literals(t) == {i \in 1 .. Len(t) : t[i].k \in {"open", "close"}}

\* the least of the indices in lits, from lo on, of a lexeme of the kind,
\* 0 when there is none
FirstLiteral(t, lits, lo, kind) ==
    LET later == {i \in lits : i >= lo /\ t[i].k = kind}
    IN IF later = {} THEN 0 ELSE CHOOSE i \in later : \A j \in later : i <= j

\* the least index from lo on of a lexeme that ends with '>', 0 when there
\* is none
FirstGT(t, lo) ==
    IF \E i \in lo .. Len(t) : EndsGT(t[i])
    THEN CHOOSE i \in lo .. Len(t) :
            EndsGT(t[i]) /\ \A j \in lo .. (i - 1) : ~EndsGT(t[j])
    ELSE 0

\* the match starting at lexeme o, an opening literal: [^>]* runs to the
\* first '>', .*? to the first closing literal after it; 0 when there is none
MatchEnd(t, lits, o) ==
    LET g == FirstGT(t, o + 1)
    IN IF g = 0 THEN 0 ELSE FirstLiteral(t, lits, g + 1, "close")

\* the scan from lexeme from on: every match replaced, count = 0
RECURSIVE SubFrom(_, _, _, _)
SubFrom(t, lits, from, repl) ==
    LET o == FirstLiteral(t, lits, from, "open")
    IN IF o = 0 THEN SubSeq(t, from, Len(t))
       ELSE LET c == MatchEnd(t, lits, o)
            IN IF c = 0 THEN SubSeq(t, from, o) \o SubFrom(t, lits, o + 1, repl)
               ELSE SubSeq(t, from, o - 1) \o repl \o SubFrom(t, lits, c + 1, repl)

\* the scan with count = 1: the first match replaced and the rest copied
RECURSIVE SubFirst(_, _, _, _)
SubFirst(t, lits, from, repl) ==
    LET o == FirstLiteral(t, lits, from, "open")
    IN IF o = 0 THEN SubSeq(t, from, Len(t))
       ELSE LET c == MatchEnd(t, lits, o)
            IN IF c = 0 THEN SubSeq(t, from, o) \o SubFirst(t, lits, o + 1, repl)
               ELSE SubSeq(t, from, o - 1) \o repl \o SubSeq(t, c + 1, Len(t))
re_sub_count1(repl, string) == SubFirst(string, Literals(string), 1, repl)

re_sub(repl, string) == SubFrom(string, Literals(string), 1, repl)

----------------------------------------------------------------------------
(* update_svg_files, lines 61-87 *)

NFiles == Len(SVG_FILES)
svg_file(i) == SVG_FILES[i][1]
stroke_of(i) == SVG_FILES[i][2]

\* line 81; the message begins with a check mark, U+2713, left out here
Confirmation(i) ==
    "Updated " \o svg_file(i) \o " with " \o FormatInt(GRID_SIZE) \o "x"
    \o FormatInt(GRID_SIZE) \o " heatmap pattern"

\* lines 83-87, t the formatted RECT_SIZE, SPACING and STROKE_WIDTH
ConfigurationOf(t) ==
    <<"\nConfiguration:",
      "  - Pattern size: " \o FormatInt(PATTERN_SIZE) \o "x" \o FormatInt(PATTERN_SIZE),
      "  - Rectangle size: " \o t[1],
      "  - Spacing: " \o t[2],
      "  - Stroke width: " \o t[3]>>
ConfigurationLines ==
    ConfigurationOf([i \in 1 .. 3 |-> FormatFloat(<<RECT_SIZE, SPACING, STROKE_WIDTH>>[i])])

\* the segments the initial contents are made of
SegBlock == <<OPEN, T(" x=\"0\" y=\"0\" width=\"1\" height=\"1\""), GT, Rect(<<>>), CLOSE>>
SegTag == <<T("<svg"), GT>>
SegEOL == <<CRLF>>
SegOpen == <<OPEN, GT>>
SegClose == <<CLOSE>>
Segments == {SegBlock, SegTag, SegEOL, SegOpen, SegClose}
SegSeqs(n) == UNION {[1 .. m -> Segments] : m \in 0 .. n}
Concat(segs) == Flatten(segs, 1, Len(segs))

LineSeps == {NL, CRLF}

InitWith(runs) ==
    /\ \E a, b \in SegSeqs(MaxSegs) :
          /\ Len(a) + Len(b) <= MaxSegs
          /\ files = <<Concat(a), Concat(b)>>
    /\ orig = files
    /\ linesep \in LineSeps
    /\ pc = "idle"
    /\ idx = 1
    /\ rng = [seed |-> 0, pos |-> 0]
    /\ runsLeft = runs
    /\ out = <<>>
    /\ io = <<>>
    /\ gpc = "idle"
    /\ stroke_color = ""
    /\ lines = <<>>
    /\ row = 0
    /\ result = <<>>

\* the script is started: line 91, with the generator seeded afresh
Start ==
    /\ pc \in {"idle", "done"}
    /\ runsLeft > 0
    /\ runsLeft' = runsLeft - 1
    /\ \E seed \in Seeds : rng' = [seed |-> seed, pos |-> 0]
    /\ pc' = "running"
    /\ idx' = 1
    /\ out' = <<>>
    /\ io' = <<>>
    /\ UNCHANGED <<files, orig, linesep>>
    /\ UNCHANGED genVars

\* one pass of the loop, lines 63-81
UpdateFile ==
    /\ pc = "running"
    /\ idx <= NFiles
    /\ LET svg_content == Decode(files[idx])
           new_pattern == Generated[<<stroke_of(idx), rng>>]
           updated_svg == re_sub(new_pattern, svg_content)
       IN files' = [files EXCEPT ![idx] = Encode(updated_svg, linesep)]
    /\ rng' = Advance(rng, DrawsPerCall)
    /\ io' = io \o << <<"read", idx>>, <<"write", idx>> >>
    /\ out' = Append(out, Confirmation(idx))
    /\ idx' = idx + 1
    /\ UNCHANGED <<orig, linesep, pc, runsLeft>>
    /\ UNCHANGED genVars

\* the read error caught and the loop going on to the next target
ReadErrorCaught ==
    /\ pc = "running"
    /\ idx <= NFiles
    /\ io' = Append(io, <<"read failed", idx>>)
    /\ idx' = idx + 1
    /\ UNCHANGED <<files, orig, linesep, pc, rng, runsLeft, out>>
    /\ UNCHANGED genVars

\* open(svg_file, 'r') or f.read() raises, lines 65-66: nothing catches it
ReadError ==
    /\ pc = "running"
    /\ idx <= NFiles
    /\ io' = Append(io, <<"read failed", idx>>)
    /\ pc' = "halted"
    /\ UNCHANGED <<files, orig, linesep, idx, rng, runsLeft, out>>
    /\ UNCHANGED genVars

\* open(svg_file, 'w') raises and the file is as it was, or f.write raises
\* after open truncated it, lines 78-79: nothing catches it
WriteError ==
    /\ pc = "running"
    /\ idx <= NFiles
    /\ \E truncated \in BOOLEAN :
          files' = [files EXCEPT ![idx] = IF truncated THEN <<>> ELSE files[idx]]
    /\ rng' = Advance(rng, DrawsPerCall)
    /\ io' = io \o << <<"read", idx>>, <<"write failed", idx>> >>
    /\ pc' = "halted"
    /\ UNCHANGED <<orig, linesep, idx, runsLeft, out>>
    /\ UNCHANGED genVars

\* the loop is over, lines 83-87
PrintConfiguration ==
    /\ pc = "running"
    /\ idx > NFiles
    /\ out' = out \o ConfigurationLines
    /\ pc' = "done"
    /\ UNCHANGED <<files, orig, linesep, idx, rng, runsLeft, io>>
    /\ UNCHANGED genVars

\* one run of the script, I/O errors included
Init == InitWith(1)
Next == Start \/ UpdateFile \/ ReadError \/ WriteError \/ PrintConfiguration
Spec == Init /\ [][Next]_vars

\* runs of the script one after the other, none meeting an I/O error
InitRuns == InitWith(MaxRuns)
NextRuns == Start \/ UpdateFile \/ PrintConfiguration
SpecRuns == InitRuns /\ [][NextRuns]_vars

----------------------------------------------------------------------------
(* The claims about generate_heatmap_pattern, checked under SpecGen *)

Returned == gpc = "returned"

\* the places of the <rect> elements of a text
RectIdx(t) == {i \in 1 .. Len(t) : t[i].k = "rect"}
Has(l, name) == name \in DOMAIN l.a
\* a full-tile rectangle: width = height = PATTERN_SIZE
IsBackground(l) ==
    /\ l.k = "rect"
    /\ Has(l, "width") /\ l.a.width = FormatInt(PATTERN_SIZE)
    /\ Has(l, "height") /\ l.a.height = FormatInt(PATTERN_SIZE)
BackgroundIdx(t) == {i \in RectIdx(t) : IsBackground(t[i])}
GridIdx(t) == RectIdx(t) \ BackgroundIdx(t)

\* C1 as stated: for any stroke colour the returned text holds exactly
\* GRID_SIZE * GRID_SIZE <rect> elements.
C1_AsStated == Returned => Cardinality(RectIdx(result)) = GRID_SIZE * GRID_SIZE

\* C1 amended: the returned text holds exactly GRID_SIZE * GRID_SIZE grid
\* rectangles whatever the draws are, and one <rect> element more, the
\* background, when the stroke colour is "#000": 289 and 290 in all.
C1_RectCount ==
    Returned =>
        /\ Cardinality(GridIdx(result)) = GRID_SIZE * GRID_SIZE
        /\ Cardinality(RectIdx(result)) =
             GRID_SIZE * GRID_SIZE + (IF stroke_color = "#000" THEN 1 ELSE 0)

C1_Witness == Returned /\ stroke_color = "#000" /\ Cardinality(RectIdx(result)) = 290

Palette == {COLORS[i] : i \in 1 .. Len(COLORS)}

\* C6 as stated: every <rect> element of the returned text has a fill that is
\* one of the three palette colours.
C6_AsStated ==
    Returned => \A i \in RectIdx(result) :
                   Has(result[i], "fill") /\ result[i].a.fill \in Palette

\* C6 amended: every grid rectangle of the returned text has a fill that is
\* one of the three palette colours; the background rectangle of the "#000"
\* variant is filled "#000", which is not a palette colour.
C6_GridFill ==
    Returned =>
        /\ \A i \in GridIdx(result) :
              Has(result[i], "fill") /\ result[i].a.fill \in Palette
        /\ \A i \in BackgroundIdx(result) : result[i].a.fill = "#000"

C6_Witness ==
    /\ Returned
    /\ stroke_color = "#000"
    /\ \E i, j \in GridIdx(result) : result[i].a.fill # result[j].a.fill

\* the fixed attributes of a grid rectangle and its stroke
HasFixedAttributes(l, s) ==
    /\ Has(l, "width") /\ l.a.width = "1.3"
    /\ Has(l, "height") /\ l.a.height = "1.3"
    /\ Has(l, "rx") /\ l.a.rx = "0.26"
    /\ Has(l, "strokeWidth") /\ l.a.strokeWidth = "0.1"
    /\ Has(l, "stroke") /\ l.a.stroke = s

\* C7 as stated: every <rect> element of the returned text carries width and
\* height RECT_SIZE, rx CORNER_RADIUS, stroke-width STROKE_WIDTH and the
\* stroke colour passed in.
C7_AsStated ==
    Returned => \A i \in RectIdx(result) : HasFixedAttributes(result[i], stroke_color)

\* C7 amended: every grid rectangle carries them; the background rectangle of
\* the "#000" variant has width and height PATTERN_SIZE and neither rx,
\* stroke nor stroke-width.
C7_GridAttributes ==
    Returned =>
        /\ \A i \in GridIdx(result) : HasFixedAttributes(result[i], stroke_color)
        /\ \A i \in BackgroundIdx(result) :
              DOMAIN result[i].a = {"width", "height", "fill"}

C7_Witness ==
    /\ Returned
    /\ stroke_color = "red"
    /\ \E i \in GridIdx(result) : result[i].a.stroke = "red"

\* C8: a full-tile rectangle is in the returned text exactly when the stroke
\* colour is "#000"; it is then the first element after the opening tag,
\* before every grid rectangle, and its fill is the stroke colour.
C8_Background ==
    Returned =>
        LET bg == BackgroundIdx(result)
            tagEnd == FirstGT(result, 1)
        IN /\ (bg # {}) <=> (stroke_color = "#000")
           /\ Cardinality(bg) <= 1
           /\ result[tagEnd - 2] = OPEN
           /\ \A i \in bg :
                 /\ result[i].a.fill = stroke_color
                 /\ \A j \in RectIdx(result) : i <= j
                 /\ \A j \in (tagEnd + 1) .. (i - 1) :
                       result[j].k \in {"nl", "text", "comment"}

C8_Witness == Returned /\ stroke_color = "#000" /\ BackgroundIdx(result) # {}

\* the decimal digits of the text of index * SPACING, and the double the
\* text reads back as
PositionDigits == [i \in 0 .. GRID_SIZE - 1 |->
                     IF Products[i] = FZero THEN [m |-> <<>>, k |-> 0]
                     ELSE ShortestDigits(Products[i])]
PositionText == [i \in 0 .. GRID_SIZE - 1 |->
                   IF Products[i] = FZero THEN "0.0" ELSE Positional(PositionDigits[i])]
ReadBack == [i \in 0 .. GRID_SIZE - 1 |->
               IF Products[i] = FZero THEN FZero
               ELSE FloatOfScaled(PositionDigits[i].m, PositionDigits[i].k)]

\* C9: the grid rectangles come in row-major order, one for each cell, and
\* the rectangle of cell (row, col) has for x the text of the double
\* col * SPACING and for y that of row * SPACING: texts that read back as
\* these doubles exactly.
C9_Positions ==
    Returned =>
        LET IsGrid(l) == l.k = "rect" /\ ~IsBackground(l)
            grid == SelectSeq(result, IsGrid)
        IN /\ Len(grid) = GRID_SIZE * GRID_SIZE
           /\ \A n \in 1 .. Len(grid) :
                 /\ grid[n].a.x = PositionText[(n - 1) % GRID_SIZE]
                 /\ grid[n].a.y = PositionText[(n - 1) \div GRID_SIZE]
           /\ \A i \in 0 .. GRID_SIZE - 1 : ReadBack[i] = FloatMulInt(i, SPACING)

C9_Witness ==
    /\ Returned
    /\ \E i \in GridIdx(result) :
          result[i].a.x = "4.199999999999999" /\ result[i].a.y = "22.4"

----------------------------------------------------------------------------
(* The claims about update_svg_files *)

(* What the regular expression matches, said of the text rather than of     *)
(* the scan: a span runs from an opening literal over the characters that   *)
(* are not '>' to the first '>', and on to the nearest closing literal.     *)
Opens(t) == {i \in 1 .. Len(t) : t[i].k = "open"}
Closes(t) == {i \in 1 .. Len(t) : t[i].k = "close"}
\* cl the places of the closing literals of t
IsSpan(t, cl, i, k) ==
    \E g \in (i + 1) .. (k - 1) :
        /\ EndsGT(t[g])
        /\ \A h \in (i + 1) .. (g - 1) : ~EndsGT(t[h])
        /\ \A h \in cl : ~(g < h /\ h < k)
SpansOf(t, op, cl) == {s \in op \X cl : s[1] < s[2] /\ IsSpan(t, cl, s[1], s[2])}
AllSpans(t) == SpansOf(t, Opens(t), Closes(t))

\* the spans a scan from the left takes: the leftmost, then the leftmost
\* that begins after it, and so on
RECURSIVE TakenFrom(_, _)
TakenFrom(all, from) ==
    LET later == {s \in all : s[1] >= from}
    IN IF later = {} THEN {}
       ELSE LET first == CHOOSE s \in later : \A u \in later : s[1] <= u[1]
            IN {first} \cup TakenFrom(all, first[2] + 1)
Blocks(t) == TakenFrom(AllSpans(t), 1)
FirstBlock(t) == CHOOSE s \in Blocks(t) : \A u \in Blocks(t) : s[1] <= u[1]

\* t with each of the spans replaced by repl, the rest kept
ReplaceSpans(t, spans, repl) ==
    Flatten([h \in 1 .. Len(t) |->
               IF \E sp \in spans : sp[1] = h THEN repl
               ELSE IF \E sp \in spans : sp[1] < h /\ h <= sp[2] THEN <<>>
               ELSE <<t[h]>>], 1, Len(t))

\* the pattern generated in pass j of the current run
PassKey(j) == <<stroke_of(j), [seed |-> rng.seed, pos |-> DrawsPerCall * (j - 1)]>>
PassPattern(j) == Generated[PassKey(j)]
\* target j was read and written back in the current run
Passed(j) == j \in 1 .. NFiles /\ j < idx

\* C2 as stated: the text written back is the text read with the first span,
\* and only that span, replaced by the generated pattern: a later span is
\* left as it was.  Spec holds one run, so orig is what the run found.
C2_AsStated ==
    \A j \in 1 .. NFiles :
        (Passed(j) /\ Blocks(Decode(orig[j])) # {})
        => Decode(files[j]) = ReplaceSpans(Decode(orig[j]), {FirstBlock(Decode(orig[j]))},
                                           PassPattern(j))

\* C2 amended: the text written back is the text read with every span the
\* scan takes, not only the first, replaced by the one generated pattern;
\* the old blocks' children are gone and every character outside the spans
\* is kept.
C2_ReplacesEvery ==
    \A j \in 1 .. NFiles :
        (Passed(j) /\ Blocks(Decode(orig[j])) # {})
        => files[j] = Encode(ReplaceSpans(Decode(orig[j]), Blocks(Decode(orig[j])),
                                          PassPattern(j)), linesep)

C2_Witness ==
    /\ Passed(1)
    /\ Cardinality(Blocks(Decode(orig[1]))) = 1
    /\ orig[1][1] = T("<svg")
    /\ Rect(<<>>) \notin {files[1][i] : i \in 1 .. Len(files[1])}
    /\ Cardinality(RectIdx(files[1])) = GRID_SIZE * GRID_SIZE

\* C3 as stated: a target without a span is written back byte for byte as
\* it was read.
C3_AsStated ==
    \A j \in 1 .. NFiles :
        (Passed(j) /\ Blocks(Decode(orig[j])) = {}) => files[j] = orig[j]

\* the text before the one block of t and the text after it
Outside(t) ==
    LET b == FirstBlock(t)
    IN <<SubSeq(t, 1, b[1] - 1), SubSeq(t, b[2] + 1, Len(t))>>

\* C4 as stated: after each run, what a file with one block holds before the
\* block's opening tag and after its closing tag is what it held there before
\* the first run.
C4_AsStated ==
    pc = "done" =>
        \A j \in 1 .. NFiles :
            Cardinality(Blocks(Decode(orig[j]))) = 1
            => /\ Cardinality(Blocks(Decode(files[j]))) = 1
               /\ Outside(Decode(files[j])) = Outside(Decode(orig[j]))

\* C5: the targets are taken one after the other in list order, each read
\* and then written; when an I/O error stops the run at target k no later
\* target is read or written, no confirmation is printed for k or a later
\* target, and every target before k holds what the run wrote to it.
C5_Sequential ==
    /\ \A n \in 1 .. Len(io) :
          /\ io[n][2] = (n + 1) \div 2
          /\ io[n][1] \in (IF n % 2 = 1 THEN {"read", "read failed"}
                            ELSE {"write", "write failed"})
          /\ io[n][1] \in {"read failed", "write failed"}
               => (n = Len(io) /\ pc = "halted" /\ io[n][2] = idx)
    /\ pc = "running" => (Len(io) = 2 * (idx - 1) /\ Len(out) = idx - 1)
    /\ pc = "halted" =>
          /\ io # <<>> /\ io[Len(io)][1] \in {"read failed", "write failed"}
          /\ \A j \in (idx + 1) .. NFiles : files[j] = orig[j]
          /\ out = [j \in 1 .. (idx - 1) |-> Confirmation(j)]
          /\ \A j \in 1 .. (idx - 1) :
                files[j] = Encode(re_sub(PassPattern(j), Decode(orig[j])), linesep)

C5_Witness ==
    /\ pc = "halted"
    /\ idx = 2
    /\ files[1] # orig[1]
    /\ files[2] = orig[2]
    /\ out = <<Confirmation(1)>>

\* the texts of the spans bs of t
BlockTexts(t, bs) == {SubSeq(t, b[1], b[2]) : b \in bs}
\* the blocks of the generated texts
GeneratedBlocks ==
    [c \in DOMAIN Generated |-> BlockTexts(Generated[c], Blocks(Generated[c]))]
\* bs, the blocks of t, are one block, and if pass j of the current run is
\* over it is the one block of the pattern of that pass
OneBlock(t, bs, j) ==
    /\ Cardinality(bs) = 1
    /\ Passed(j) => /\ Cardinality(GeneratedBlocks[PassKey(j)]) = 1
                    /\ BlockTexts(t, bs) = GeneratedBlocks[PassKey(j)]
OneBlockIn(t, j) == OneBlock(t, Blocks(t), j)

\* C10: the generated text holds one span, so a file that held one block
\* before the runs holds one block after any number of them, and each run
\* that passes the file puts its own pattern in the block's place.
C10_OneBlock ==
    \A j \in 1 .. NFiles :
        Cardinality(Blocks(Decode(orig[j]))) = 1 => OneBlockIn(Decode(files[j]), j)

C10_Witness ==
    /\ pc = "done"
    /\ runsLeft = 0
    /\ \E j \in 1 .. NFiles :
          /\ Cardinality(Blocks(Decode(orig[j]))) = 1
          /\ Cardinality(Blocks(Decode(files[j]))) = 1
          /\ files[j] # orig[j]

====
